---- MODULE Spec2Model ----
(***************************************************************************)
(* Model of the CbCR extractor's rule book (src/extraction/rules.py) and   *)
(* of its heuristic classifier (src/utils.py).                             *)
(*                                                                         *)
(* Python values.  A str that is used as a dictionary key, as a regular    *)
(* expression or as the text of a lookup is a sequence of tokens: "A",     *)
(* "B", "C" are single letters, "^" is the regex anchor, and "default",    *)
(* "_regex_", "2020", ... stand for those very substrings.  No token is a  *)
(* prefix of another, so equality and prefix tests on token sequences are  *)
(* equality and prefix tests on the strings.  A dict is the sequence of    *)
(* its items in insertion order (Python dicts and json.loads keep it).     *)
(***************************************************************************)
EXTENDS Integers, Sequences, FiniteSets, TLC

VARIABLES
    all,        \* Rules._all: the whole rule book (both axis trees)
    err,        \* the exception Rules.__init__ raised, or "none"
    nwrites,    \* number of write_new_rule calls made so far
    last,       \* the last call made on the rule book, its arguments and result
    df,         \* the table given to is_transposed
    rep,        \* the thresholds of the report given to is_transposed
    orient,     \* the outcome of is_transposed
    z,          \* the text given to auto_jurisdiction_to_iso3166
    iso         \* the outcome of auto_jurisdiction_to_iso3166

vars == <<all, err, nwrites, last, df, rep, orient, z, iso>>

-----------------------------------------------------------------------------
(* Python values and exceptions *)

PyNone == [t |-> "None", v |-> <<>>]
PyStr(s) == [t |-> "str", v |-> s]
PyDict(items) == [t |-> "dict", v |-> items]
Item(k, v) == [k |-> k, v |-> v]
EmptyDict == PyDict(<<>>)

IsDict(x) == x.t = "dict"

Ok(v) == [exc |-> "none", val |-> v]
Raise(e) == [exc |-> e, val |-> PyNone]

\* position of key k among the items of dict d, 0 when absent
IndexOf(d, k) ==
    LET hits == {i \in 1..Len(d.v) : d.v[i].k = k}
    IN  IF hits = {} THEN 0 ELSE CHOOSE i \in hits : TRUE

HasKey(d, k) == IsDict(d) /\ IndexOf(d, k) # 0

\* d[k] on a dict known to hold k
Value(d, k) == d.v[IndexOf(d, k)].v

\* x[k]: KeyError on a dict without k, TypeError on a str
Subscript(x, k) ==
    IF ~IsDict(x) THEN Raise("TypeError")
    ELSE IF IndexOf(x, k) = 0 THEN Raise("KeyError")
    ELSE Ok(Value(x, k))

\* d.get(k)
DictGet(d, k) == IF IndexOf(d, k) = 0 THEN PyNone ELSE Value(d, k)

\* d[k] = v: an existing key keeps its position, a new key goes last
SetItem(d, k, v) ==
    LET i == IndexOf(d, k)
    IN  IF i = 0 THEN PyDict(Append(d.v, Item(k, v)))
        ELSE PyDict([d.v EXCEPT ![i] = Item(k, v)])

\* dict(pairs) and {**a, **b}: items are stored one by one
RECURSIVE StoreAll(_, _)
StoreAll(d, items) ==
    IF items = <<>> THEN d
    ELSE StoreAll(SetItem(d, Head(items).k, Head(items).v), Tail(items))

Unpack(a, b) == StoreAll(a, b.v)

\* the dict stored under a path of keys of nested dicts replaced by v
RECURSIVE SetPath(_, _, _)
SetPath(d, path, v) ==
    IF Len(path) = 1 THEN SetItem(d, path[1], v)
    ELSE SetItem(d, path[1], SetPath(Value(d, path[1]), Tail(path), v))

-----------------------------------------------------------------------------
(* Strings *)

DEFAULT == <<"default">>
COLUMN_RULES == <<"column_rules">>
JURISDICTION_RULES == <<"jurisdiction_rules">>
SINK == <<"sink">>
JUSTIFICATION == <<"justification">>
MARKER == "_regex_"

\* re.search(r"_regex_(.*)", key): position of the first marker, 0 if none
MarkerAt(key) ==
    LET hits == {i \in 1..Len(key) : key[i] = MARKER}
    IN  IF hits = {} THEN 0 ELSE CHOOSE i \in hits : \A j \in hits : i <= j

\* .group(1) of that search: what follows the first marker
Group1(key) == SubSeq(key, MarkerAt(key) + 1, Len(key))

\* re.match(pattern, source) for patterns made of literals and "^":
\* the pattern is matched from the start of source, the rest of source is free
RECURSIVE MatchAt(_, _, _)
MatchAt(pattern, source, pos) ==
    IF pattern = <<>> THEN TRUE
    ELSE IF Head(pattern) = "^"
         THEN pos = 0 /\ MatchAt(Tail(pattern), source, pos)
         ELSE /\ source # <<>>
              /\ Head(source) = Head(pattern)
              /\ MatchAt(Tail(pattern), Tail(source), pos + 1)

re_match(pattern, source) == MatchAt(pattern, source, 0)

-----------------------------------------------------------------------------
(* Rules.__init__ *)

NoFile == PyStr("no such file")

\* rules is the parsed JSON document, or NoFile when the text is no JSON
\* and names no file
Rules_init(rules) ==
    IF rules = NoFile THEN Raise("RulesError: Rules file not found")
    ELSE IF ~HasKey(rules, COLUMN_RULES) \/ ~HasKey(rules, JURISDICTION_RULES)
         THEN Raise("RulesError: Rules file malformed")
         ELSE Ok(rules)

AxisKey(col_or_jur) == IF col_or_jur = "c" THEN COLUMN_RULES ELSE JURISDICTION_RULES

\* self._column / self._jurisdiction: the axis tree inside self._all
RuleBook(a, col_or_jur) == Value(a, AxisKey(col_or_jur))

-----------------------------------------------------------------------------
(* Rules.__get_rules *)

\* the lookup without its except clause: a missing scope raises
ScopeOrEmpty_Uncaught(rule_book, mnc, sub) ==
    LET c == Subscript(rule_book, mnc)
    IN  IF c.exc # "none" THEN c ELSE Subscript(c.val, sub)

\* try: rule_book[mnc][sub] except KeyError: dict()
ScopeOrEmpty(rule_book, mnc, sub) ==
    LET c == Subscript(rule_book, mnc)
    IN  IF c.exc = "KeyError" THEN Ok(EmptyDict)
        ELSE IF c.exc # "none" THEN c
        ELSE LET s == Subscript(c.val, sub)
             IN  IF s.exc = "KeyError" THEN Ok(EmptyDict) ELSE s

\* the scopes unpacked in the opposite order: the global default wins
MergeScopes_GlobalLast(default_all_files_rules, mne_rules, year_rules) ==
    Unpack(Unpack(Unpack(EmptyDict, year_rules), mne_rules), default_all_files_rules)

\* {**default_all_files_rules, **mne_rules, **year_rules}
MergeScopes(default_all_files_rules, mne_rules, year_rules) ==
    Unpack(Unpack(Unpack(EmptyDict, default_all_files_rules), mne_rules), year_rules)

\* for k, v in rules_in_effect.items(): a dict is replaced by its v["sink"]
Reducible(d) == \A i \in 1..Len(d.v) : IsDict(d.v[i].v) => HasKey(d.v[i].v, SINK)

ReduceToSinks(d) ==
    PyDict([i \in 1..Len(d.v) |->
        IF IsDict(d.v[i].v) THEN Item(d.v[i].k, Value(d.v[i].v, SINK)) ELSE d.v[i]])

\* partition(pred, items): the items failing pred, the items passing it;
\* pred is given as a function over the items
partition(pred, items) ==
    <<SelectSeq(items, LAMBDA x : ~pred[x]), SelectSeq(items, LAMBDA x : pred[x])>>

IsRegexItem(x) == MarkerAt(x.k) # 0

StripMarker(items) == [i \in 1..Len(items) |-> Item(Group1(items[i].k), items[i].v)]

get_rules(a, col_or_jur, strict_or_regex, report) ==
    LET rule_book == RuleBook(a, col_or_jur)
        d == Subscript(rule_book, DEFAULT)
        y == ScopeOrEmpty(rule_book, report.group_name, report.end_of_year)
        m == ScopeOrEmpty(rule_book, report.group_name, DEFAULT)
    IN  IF d.exc # "none" THEN d
        ELSE IF y.exc # "none" THEN y
        ELSE IF m.exc # "none" THEN m
        ELSE IF ~IsDict(d.val) \/ ~IsDict(m.val) \/ ~IsDict(y.val)
             THEN Raise("ValueError")
        ELSE LET merged == MergeScopes(d.val, m.val, y.val)
             IN  IF ~Reducible(merged) THEN Raise("ValueError")
                 ELSE LET rules_in_effect == ReduceToSinks(merged)
                          parts == partition([x \in {rules_in_effect.v[i] : i \in DOMAIN rules_in_effect.v} |-> IsRegexItem(x)],
                                             rules_in_effect.v)
                          regex_dict == StoreAll(EmptyDict, StripMarker(parts[2]))
                      IN  IF strict_or_regex = "s"
                          THEN Ok(StoreAll(EmptyDict, parts[1]))
                          ELSE Ok(regex_dict)

get_sink_from_strict(a, report, source, col_or_jur) ==
    LET r == get_rules(a, col_or_jur, "s", report)
    IN  IF r.exc = "KeyError" THEN Ok(PyNone)
        ELSE IF r.exc # "none" THEN r
        ELSE Ok(DictGet(r.val, source))

\* the loop without its early return: the last matching rule wins
RECURSIVE FirstMatch_LastWins(_, _)
FirstMatch_LastWins(items, source) ==
    IF items = <<>> THEN PyNone
    ELSE LET rest == FirstMatch_LastWins(Tail(items), source)
         IN  IF rest # PyNone THEN rest
             ELSE IF re_match(Head(items).k, source) THEN Head(items).v
             ELSE PyNone

\* the sink of the first item of the regex rules whose pattern matches
RECURSIVE FirstMatch(_, _)
FirstMatch(items, source) ==
    IF items = <<>> THEN PyNone
    ELSE IF re_match(Head(items).k, source) THEN Head(items).v
    ELSE FirstMatch(Tail(items), source)

get_sink_from_regex(a, report, source, col_or_jur) ==
    LET r == get_rules(a, col_or_jur, "r", report)
    IN  IF r.exc # "none" THEN r ELSE Ok(FirstMatch(r.val.v, source))

-----------------------------------------------------------------------------
(* Rules.write_new_rule *)

RuleEntry(sink, justification) ==
    PyDict(<<Item(SINK, PyStr(sink)), Item(JUSTIFICATION, PyStr(justification))>>)

\* the scope assigned instead of the entry: rule_set["default"] = {source: pair}
WriteGlobal_ReplaceScope(a, axis, source, pair) ==
    Ok(SetPath(a, <<axis, DEFAULT>>, PyDict(<<Item(source, pair)>>)))

\* mode "!": rule_set["default"][source] = pair
WriteGlobal(a, axis, source, pair) ==
    LET d == Subscript(Value(a, axis), DEFAULT)
    IN  IF d.exc # "none" THEN d
        ELSE IF ~IsDict(d.val) THEN Raise("TypeError")
        ELSE Ok(SetPath(a, <<axis, DEFAULT, source>>, pair))

\* the assignment without its except clauses: no scope is created
WriteScoped_NoCreate(a, axis, company, sub, source, pair) ==
    LET c == Subscript(Value(a, axis), company)
    IN  IF c.exc # "none" THEN c
        ELSE LET s == Subscript(c.val, sub)
             IN  IF s.exc # "none" THEN s
                 ELSE IF ~IsDict(s.val) THEN Raise("TypeError")
                 ELSE Ok(SetPath(a, <<axis, company, sub, source>>, pair))

\* modes "#" and ".": rule_set[company][sub][source] = pair, and on KeyError
\* rule_set[company][sub] = {source: pair}, and on KeyError again
\* rule_set[company] = {sub: {source: pair}}
WriteScoped(a, axis, company, sub, source, pair) ==
    LET c == Subscript(Value(a, axis), company)
        fresh == PyDict(<<Item(source, pair)>>)
    IN  IF c.exc = "KeyError"
        THEN Ok(SetPath(a, <<axis, company>>, PyDict(<<Item(sub, fresh)>>)))
        ELSE IF c.exc # "none" THEN c
        ELSE LET s == Subscript(c.val, sub)
             IN  IF s.exc = "KeyError"
                 THEN Ok(SetPath(a, <<axis, company, sub>>, fresh))
                 ELSE IF s.exc # "none" THEN s
                 ELSE IF ~IsDict(s.val) THEN Raise("TypeError")
                 ELSE Ok(SetPath(a, <<axis, company, sub, source>>, pair))

write_new_rule(a, source, mode, sink, justification, col_or_jur, report) ==
    LET axis == AxisKey(col_or_jur)
        company == report.group_name
        year == report.end_of_year
        pair == RuleEntry(sink, justification)
    IN  IF mode = "!" THEN WriteGlobal(a, axis, source, pair)
        ELSE IF mode = "#" THEN WriteScoped(a, axis, company, DEFAULT, source, pair)
        ELSE IF mode = "." THEN WriteScoped(a, axis, company, year, source, pair)
        ELSE Ok(a)

-----------------------------------------------------------------------------
(* Rules.export_justifications_to_csv *)

\* one line of the file: the keys joined by commas, the sink, the justification
CsvRecord(keys, value) ==
    [path |-> keys, sink |-> DictGet(value, SINK),
     justification |-> DictGet(value, JUSTIFICATION)]

RECURSIVE extract_objects(_, _, _)
RECURSIVE ExtractItems(_, _, _)
ExtractItems(items, keys, level) ==
    IF items = <<>> THEN <<>>
    ELSE LET key == Head(items).k
             value == Head(items).v
             here == IF level = 3 /\ IsDict(value)
                     THEN <<CsvRecord(Append(keys, key), value)>>
                     ELSE IF IsDict(value)
                          THEN extract_objects(value, Append(keys, key), level + 1)
                          ELSE <<>>
         IN  here \o ExtractItems(Tail(items), keys, level)

extract_objects(json_obj, keys, level) ==
    IF IsDict(json_obj) THEN ExtractItems(json_obj.v, keys, level) ELSE <<>>

\* value['sink'] or value['justification'] of a record raised KeyError
export_justifications_to_csv(a) ==
    LET out == extract_objects(a, <<>>, 0)
    IN  IF \E i \in 1..Len(out) : out[i].sink = PyNone \/ out[i].justification = PyNone
        THEN [exc |-> "KeyError", val |-> <<>>]
        ELSE [exc |-> "none", val |-> out]

-----------------------------------------------------------------------------
(* Text of src/utils.py: a str is the sequence of its characters *)

LOWER == <<"a", "b", "c", "d", "e", "f", "g", "h", "i", "j", "k", "l", "m",
           "n", "o", "p", "q", "r", "s", "t", "u", "v", "w", "x", "y", "z">>
UPPER == <<"A", "B", "C", "D", "E", "F", "G", "H", "I", "J", "K", "L", "M",
           "N", "O", "P", "Q", "R", "S", "T", "U", "V", "W", "X", "Y", "Z">>
DIGITS == {"0", "1", "2", "3", "4", "5", "6", "7", "8", "9"}

\* U+0131, LATIN SMALL LETTER DOTLESS I: no ASCII letter, and its upper() is "I"
DOTLESS_I == "i_dotless"

PosIn(seq, ch) ==
    LET hits == {i \in 1..Len(seq) : seq[i] = ch}
    IN  IF hits = {} THEN 0 ELSE CHOOSE i \in hits : TRUE

IsAsciiLetter(ch) == PosIn(LOWER, ch) # 0 \/ PosIn(UPPER, ch) # 0
IsSpace(ch) == ch = " " \/ ch = "\n"
\* \w of the re module
IsWordChar(ch) == IsAsciiLetter(ch) \/ ch \in DIGITS \/ ch = "_" \/ ch = DOTLESS_I

UpperChar(ch) ==
    IF PosIn(LOWER, ch) # 0 THEN UPPER[PosIn(LOWER, ch)]
    ELSE IF ch = DOTLESS_I THEN "I" ELSE ch
LowerChar(ch) == IF PosIn(UPPER, ch) # 0 THEN LOWER[PosIn(UPPER, ch)] ELSE ch

\* str.upper(), str.lower() and str.casefold()
str_upper(text) == [i \in 1..Len(text) |-> UpperChar(text[i])]
str_lower(text) == [i \in 1..Len(text) |-> LowerChar(text[i])]
casefold(text) == [i \in 1..Len(text) |-> LowerChar(text[i])]

\* str.split(): the maximal runs of characters that are no whitespace
RECURSIVE SplitFrom(_, _)
SplitFrom(text, word) ==
    IF text = <<>> THEN (IF word = <<>> THEN <<>> ELSE <<word>>)
    ELSE IF IsSpace(Head(text))
         THEN (IF word = <<>> THEN <<>> ELSE <<word>>) \o SplitFrom(Tail(text), <<>>)
         ELSE SplitFrom(Tail(text), Append(word, Head(text)))

str_split(text) == SplitFrom(text, <<>>)

\* str.strip()
str_strip(text) ==
    LET inked == {i \in 1..Len(text) : ~IsSpace(text[i])}
    IN  IF inked = {} THEN <<>>
        ELSE SubSeq(text, CHOOSE i \in inked : \A j \in inked : i <= j,
                          CHOOSE i \in inked : \A j \in inked : i >= j)

\* " ".join(words)
RECURSIVE str_join(_)
str_join(words) ==
    IF words = <<>> THEN <<>>
    ELSE IF Len(words) = 1 THEN words[1]
    ELSE words[1] \o <<" ">> \o str_join(Tail(words))

\* sub in text at position i (from 1)
OccursAt(sub, text, i) ==
    /\ i + Len(sub) - 1 <= Len(text)
    /\ \A j \in 1..Len(sub) : text[i + j - 1] = sub[j]

\* str.find(sub): the index from 0 of the first occurrence, -1 if none
str_find(text, sub) ==
    LET hits == {i \in 1..(Len(text) + 1) : OccursAt(sub, text, i)}
    IN  IF hits = {} THEN -1 ELSE (CHOOSE i \in hits : \A j \in hits : i <= j) - 1

\* CHARS_TO_PURGE_FROM_COLUMN_NAMES_RE.sub(" ", text), the pattern [^a-zA-Z ']
PurgeChars(text) ==
    [i \in 1..Len(text) |->
        IF IsAsciiLetter(text[i]) \/ text[i] = " " \/ text[i] = "'"
        THEN text[i] ELSE " "]

\* STAND_ALONE_CHAR_RE matches at i: (\s\S\s*$) or (\smn\s*$)
AllSpaceFrom(text, i) == \A j \in i..Len(text) : IsSpace(text[j])
StandAloneAt(text, i) ==
    /\ IsSpace(text[i])
    /\ \/ i + 1 <= Len(text) /\ ~IsSpace(text[i + 1]) /\ AllSpaceFrom(text, i + 2)
       \/ /\ i + 2 <= Len(text)
          /\ text[i + 1] = "m" /\ text[i + 2] = "n"
          /\ AllSpaceFrom(text, i + 3)

\* STAND_ALONE_CHAR_RE.sub(" ", text): the leftmost match runs to the end
StandAloneSub(text) ==
    LET hits == {i \in 1..Len(text) : StandAloneAt(text, i)}
    IN  IF hits = {} THEN text
        ELSE LET i == CHOOSE i \in hits : \A j \in hits : i <= j
             IN  Append(SubSeq(text, 1, i - 1), " ")

neatify(arg) == casefold(str_join(str_split(StandAloneSub(PurgeChars(arg)))))

-----------------------------------------------------------------------------
(* The reference data: stand-ins for configuration/countryish_names_to_code.csv
   and for the pycountry catalog *)

None == <<"None">>

Country(alpha_2, alpha_3, name, official_name, comment) ==
    [alpha_2 |-> alpha_2, alpha_3 |-> alpha_3, name |-> name,
     official_name |-> official_name, comment |-> comment]

\* pycountry.countries, in its order of iteration
Countries == <<
    Country(<<"A","Q">>, <<"A","T","A">>,
            <<"A","n","t","a","r","c","t","i","c","a">>, None, None),
    Country(<<"I","T">>, <<"I","T","A">>, <<"I","t","a","l","y">>,
            <<"I","t","a","l","i","a","n"," ","R","e","p","u","b","l","i","c">>, None),
    Country(<<"M","L">>, <<"M","L","I">>, <<"M","a","l","i">>,
            <<"R","e","p","u","b","l","i","c"," ","o","f"," ","M","a","l","i">>, None),
    Country(<<"M","T">>, <<"M","L","T">>, <<"M","a","l","t","a">>,
            <<"R","e","p","u","b","l","i","c"," ","o","f"," ","M","a","l","t","a">>, None)
>>

ISO3166_ALPHA3 == {Countries[i].alpha_3 : i \in 1..Len(Countries)}

\* the rows of the csv whose code is not empty, keyed by the casefolded name
CONTRY_TO_ISO3166_MAPPING ==
    {<<casefold(<<"I","t">>), <<"I","T","A">>>>,
     <<casefold(<<"M"," ","A">>), <<"M","L","T">>>>}

\* CONTRY_TO_ISO3166_MAPPING.get(x, "")
MappingGet(x) ==
    LET hits == {row \in CONTRY_TO_ISO3166_MAPPING : row[1] = x}
    IN  IF hits = {} THEN <<>> ELSE (CHOOSE row \in hits : TRUE)[2]

-----------------------------------------------------------------------------
(* my_search_fuzzy *)

\* pycountry's countries.lookup(query): the country one of whose fields is
\* the query, whatever the case; 0 stands for LookupError
lookup(countries, query) ==
    LET hits == {i \in 1..Len(countries) :
                    \E f \in {"alpha_2", "alpha_3", "name", "official_name"} :
                        countries[i][f] # None /\ str_lower(countries[i][f]) = query}
    IN  IF hits = {} THEN 0 ELSE CHOOSE i \in hits : \A j \in hits : i <= j

\* the first of name, official_name, comment that holds the query
FirstFieldWith(candidate, query) ==
    LET fields == <<candidate.name, candidate.official_name, candidate.comment>>
        hits == {i \in 1..3 : fields[i] # None /\ str_find(str_lower(fields[i]), query) >= 0}
    IN  IF hits = {} THEN None
        ELSE str_lower(fields[CHOOSE i \in hits : \A j \in hits : i <= j])

Max(a, b) == IF a >= b THEN a ELSE b

\* max([5, 30 - (2 * v.find(query))]), 0 when no field holds the query
PartialPoints(candidate, query) ==
    LET v == FirstFieldWith(candidate, query)
    IN  IF v = None THEN 0 ELSE Max(5, 30 - (2 * str_find(v, query)))

\* results[alpha_3] after "Prio 1" and "Prio 3"; 0 when the country has no entry
Points(countries, query, i) ==
    (IF lookup(countries, query) = i THEN 50 ELSE 0)
        + PartialPoints(countries[i], query)

\* a < b for two strings of capital letters
RECURSIVE StrLess(_, _)
StrLess(a, b) ==
    IF b = <<>> THEN FALSE
    ELSE IF a = <<>> THEN TRUE
    ELSE IF Head(a) = Head(b) THEN StrLess(Tail(a), Tail(b))
    ELSE PosIn(UPPER, Head(a)) < PosIn(UPPER, Head(b))

\* the sort key (-points, code)
Before(r1, r2) ==
    \/ r1[2] > r2[2]
    \/ r1[2] = r2[2] /\ StrLess(r1[1], r2[1])

\* sorted(results.items(), key=lambda x: (-x[1], x[0]))
RECURSIVE SortResults(_)
SortResults(results) ==
    IF results = {} THEN <<>>
    ELSE LET first == CHOOSE r \in results : \A o \in results \ {r} : Before(r, o)
         IN  <<first>> \o SortResults(results \ {first})

my_search_fuzzy(countries, query0) ==
    LET query == str_lower(str_strip(query0))
        results == {<<countries[i].alpha_3, Points(countries, query, i)>> :
                        i \in {i \in 1..Len(countries) : Points(countries, query, i) > 0}}
    IN  IF query \in {<<"a","f","r","i","c","a">>, <<"a","m","e","r","i","c","a">>,
                      <<"e","u","r","o","p","e">>}
        THEN [exc |-> "none", val |-> <<<<query, 51>>>>]
        ELSE IF results = {} THEN [exc |-> "LookupError", val |-> <<>>]
        ELSE [exc |-> "none", val |-> SortResults(results)]

-----------------------------------------------------------------------------
(* auto_jurisdiction_to_iso3166 *)

EMPTY == <<"<", "e", "m", "p", "t", "y", ">">>

\* the try block: c of the top-ranked candidate, c unchanged on any exception
FuzzyOr(c, x) ==
    LET f == my_search_fuzzy(Countries, x)
    IN  IF f.exc = "none" THEN f.val[1][1] ELSE c

\* the condition without "x and": an empty text goes to the fuzzy search
TriesFuzzy_EmptyToo(text, x, c) ==
    c = <<>> /\ str_upper(text) \notin ISO3166_ALPHA3

\* if x and not c and (z.upper() not in ISO3166_ALPHA3)
TriesFuzzy(text, x, c) ==
    x # <<>> /\ c = <<>> /\ str_upper(text) \notin ISO3166_ALPHA3

auto_jurisdiction_to_iso3166(text) ==
    LET x == neatify(text)
        c0 == MappingGet(x)
        c == IF TriesFuzzy(text, x, c0) THEN FuzzyOr(c0, x) ELSE c0
    IN  IF str_upper(x) \in ISO3166_ALPHA3 THEN str_upper(x)
        ELSE IF c # <<>> THEN c
        ELSE IF x # <<>> THEN x
        ELSE EMPTY

-----------------------------------------------------------------------------
(* count_countries, count_CbCR_terms, is_transposed *)

\* a pattern of the term lists: the letters, after one \w when word is TRUE
Term(word, letters) == [word |-> word, letters |-> letters]

ENGLISH_COLUMN_TERMS == <<
    Term(FALSE, <<"t","a","x">>),
    Term(TRUE, <<"r","e","l","a","t","e","d">>),
    Term(FALSE, <<"i","n","c","o","m","e">>),
    Term(FALSE, <<"e","m","p","l","o","y","e","e">>),
    Term(FALSE, <<"u","n","r","e","l","a","t","e","d">>),
    Term(FALSE, <<"t","h","i","r","d">>),
    Term(FALSE, <<"t","a","n","g","i","b","l","e">>),
    Term(FALSE, <<"a","s","s","e","t","s">>),
    Term(FALSE, <<"p","a","r","t","y">>),
    Term(FALSE, <<"p","a","r","t","i","e","s">>),
    Term(FALSE, <<"a","c","c","r","u","e","d">>),
    Term(FALSE, <<"p","r","o","f","i","t">>),
    Term(FALSE, <<"r","e","v","e","n","u","e">>)
>>
ITALIAN_COLUMN_TERMS == <<
    Term(FALSE, <<"i","m","p","o","s","t","e">>),
    Term(FALSE, <<"p","a","g","a","t","e">>),
    Term(FALSE, <<"r","e","d","d","i","t","o">>),
    Term(FALSE, <<"u","t","i","l","e">>)
>>
COMPILED_CBCR_TERMS == ENGLISH_COLUMN_TERMS \o ITALIAN_COLUMN_TERMS

\* term.search(s)
term_search(term, s) ==
    \E i \in 1..Len(s) :
        IF term.word
        THEN IsWordChar(s[i]) /\ OccursAt(term.letters, s, i + 1)
        ELSE OccursAt(term.letters, s, i)

count_CbCR_terms(s) ==
    Cardinality({k \in 1..Len(COMPILED_CBCR_TERMS) : term_search(COMPILED_CBCR_TERMS[k], s)})

CONTINENTS == {<<"A","F","R","I","C","A">>, <<"E","U","R","O","P","E">>,
               <<"A","M","E","R","I","C","A">>, <<"A","S","I","A">>,
               <<"N","O","R","T","H"," ","A","M","E","R","I","C","A">>}

\* the test of one cell in count_countries
IsCountryCell(cell) ==
    LET n == neatify(cell)
    IN  \/ MappingGet(neatify(cell)) # <<>>
        \/ str_upper(n) \in ISO3166_ALPHA3
        \/ str_upper(n) \in CONTINENTS

count_countries(series) ==
    Cardinality({i \in 1..Len(series) : IsCountryCell(series[i])})

\* Series.to_string() of a row: a line "label value" for each column
RECURSIVE RowLines(_, _)
RowLines(labels, values) ==
    IF labels = <<>> THEN <<>>
    ELSE Head(labels) \o <<" ">> \o Head(values)
         \o (IF Len(labels) = 1 THEN <<>> ELSE <<"\n">> \o RowLines(Tail(labels), Tail(values)))

to_string(labels, values) ==
    IF labels = <<>>
    THEN <<"S","e","r","i","e","s","(","[","]",","," ",")">>
    ELSE RowLines(labels, values)

\* df.items(): the values of column j
ColumnValues(frame, j) == [i \in 1..Len(frame.rows) |-> frame.rows[i][j]]

\* the two tests of a row in the opposite order
RECURSIVE ScanRows_JursFirst(_, _, _)
ScanRows_JursFirst(frame, report, i) ==
    IF i > Len(frame.rows) THEN "ValueError"
    ELSE IF count_countries(frame.rows[i]) >= report.min_nb_jurs_per_table
         THEN "True"
    ELSE IF count_CbCR_terms(to_string(frame.columns, frame.rows[i])) >= report.min_nb_cols
         THEN "False"
    ELSE ScanRows_JursFirst(frame, report, i + 1)

\* for _, values in df.iterrows(): the first row that returns decides
RECURSIVE ScanRows(_, _, _)
ScanRows(frame, report, i) ==
    IF i > Len(frame.rows) THEN "ValueError"
    ELSE IF count_CbCR_terms(to_string(frame.columns, frame.rows[i])) >= report.min_nb_cols
         THEN "False"
    ELSE IF count_countries(frame.rows[i]) >= report.min_nb_jurs_per_table
         THEN "True"
    ELSE ScanRows(frame, report, i + 1)

is_transposed(frame, report) ==
    IF \E j \in 1..Len(frame.columns) :
           count_countries(ColumnValues(frame, j)) >= report.min_nb_jurs_per_table
    THEN "False"
    ELSE ScanRows(frame, report, 1)

-----------------------------------------------------------------------------
(* The rule books, reports and texts the model ranges over *)

Acme == <<"Acme">>
Bolt == <<"Bolt">>
Y2020 == <<"2020">>
Y2021 == <<"2021">>

kAB == <<"A", "B">>
kABC == <<"A", "B", "C">>
kB == <<"B">>
rA == <<MARKER, "A">>
rAB == <<MARKER, "^", "A", "B">>

Dict1(k1, v1) == PyDict(<<Item(k1, v1)>>)
Dict2(k1, v1, k2, v2) == PyDict(<<Item(k1, v1), Item(k2, v2)>>)
Dict3(k1, v1, k2, v2, k3, v3) == PyDict(<<Item(k1, v1), Item(k2, v2), Item(k3, v3)>>)
Book(col, jur) == Dict2(COLUMN_RULES, col, JURISDICTION_RULES, jur)

\* kAB in all three scopes of Acme, the regex rules in different orders in
\* different scopes; a legacy rule whose value is the bare sink; Bolt has a
\* year scope and no default scope
DocLayered ==
    Book(Dict2(DEFAULT, Dict2(kAB, RuleEntry("g1", "j0"), rA, RuleEntry("g2", "j0")),
               Acme, Dict2(DEFAULT, Dict2(rAB, RuleEntry("m1", "j0"),
                                          kAB, RuleEntry("m2", "j0")),
                           Y2020, Dict2(rAB, RuleEntry("y1", "j0"),
                                        kAB, RuleEntry("y2", "j0")))),
         Dict2(DEFAULT, Dict1(kB, PyStr("g3")),
               Bolt, Dict1(Y2021, Dict1(kB, RuleEntry("y3", "j0")))))

DocEmpty == Book(Dict1(DEFAULT, EmptyDict), Dict1(DEFAULT, EmptyDict))

\* the more specific pattern first; Bolt has a default scope and no year scope
DocRegexFirst ==
    Book(Dict2(DEFAULT, Dict2(rAB, RuleEntry("g4", "j0"), rA, RuleEntry("g5", "j0")),
               Bolt, Dict1(DEFAULT, Dict1(kAB, RuleEntry("m3", "j0")))),
         Dict2(DEFAULT, Dict1(kAB, RuleEntry("g6", "j0")),
               Acme, Dict2(DEFAULT, Dict1(kAB, RuleEntry("m4", "j0")),
                           Y2021, Dict1(kB, RuleEntry("y4", "j0")))))

\* documents whose axis trees all hold a "default" scope
Docs == {DocLayered, DocEmpty, DocRegexFirst}

\* a column tree without "default"; no jurisdiction tree; no file
DocNoDefault ==
    Book(Dict1(Acme, Dict1(Y2020, Dict1(kAB, RuleEntry("x", "j0")))),
         Dict1(DEFAULT, EmptyDict))
DocNoJurisdiction == Dict1(COLUMN_RULES, Dict1(DEFAULT, EmptyDict))

AnyDocs == Docs \cup {DocNoDefault, DocNoJurisdiction, NoFile}

Report(group_name, end_of_year) ==
    [group_name |-> group_name, end_of_year |-> end_of_year]

Companies == {Acme, Bolt}
Years == {Y2020, Y2021}
Reports == {Report(c, y) : c \in Companies, y \in Years}
CallReports == {Report(Acme, Y2020), Report(Bolt, Y2021)}

\* reports whose group_name or end_of_year is the text "default"
AnyReports == {Report(Acme, Y2020), Report(DEFAULT, Y2020), Report(Acme, DEFAULT)}

Axes == {"c", "j"}
Modes == {"!", "#", "."}
Sources == {kAB, kABC, kB, rA}
LookupSources == {kAB, kABC}
WriteSources == {kAB, rA}
WriteSinks == {"z"}
Justifications == {"j1"}

MaxWrites == 1

-----------------------------------------------------------------------------
(* The rule book as a state machine *)

NoReport == Report(<<>>, <<>>)

Call(op, source, mode, sink, justification, col_or_jur, report, res, records) ==
    [op |-> op, source |-> source, mode |-> mode, sink |-> sink,
     justification |-> justification, col_or_jur |-> col_or_jur,
     report |-> report, res |-> res, records |-> records]

NoCall == Call("none", <<>>, "", "", "", "", NoReport, Ok(PyNone), <<>>)

ClassifierIdle ==
    /\ df = <<>>
    /\ rep = [min_nb_jurs_per_table |-> 0, min_nb_cols |-> 0]
    /\ orient = "none"
    /\ z = <<>>
    /\ iso = None

\* Rules(rules): on RulesError there is no rule book
Load(docs) ==
    /\ \E rules \in docs :
          LET r == Rules_init(rules)
          IN  /\ err = r.exc
              /\ all = r.val
    /\ nwrites = 0
    /\ last = NoCall
    /\ ClassifierIdle

CallGetSinkFromStrict(reports) ==
    /\ err = "none"
    /\ \E report \in reports, source \in LookupSources, c \in Axes :
          last' = Call("get_sink_from_strict", source, "", "", "", c, report,
                       get_sink_from_strict(all, report, source, c), <<>>)
    /\ UNCHANGED <<all, err, nwrites, df, rep, orient, z, iso>>

CallGetSinkFromRegex(reports) ==
    /\ err = "none"
    /\ \E report \in reports, source \in LookupSources, c \in Axes :
          last' = Call("get_sink_from_regex", source, "", "", "", c, report,
                       get_sink_from_regex(all, report, source, c), <<>>)
    /\ UNCHANGED <<all, err, nwrites, df, rep, orient, z, iso>>

CallWriteNewRule(reports) ==
    /\ err = "none"
    /\ nwrites < MaxWrites
    /\ \E report \in reports, source \in WriteSources, mode \in Modes,
          sink \in WriteSinks, justification \in Justifications, c \in Axes :
          LET w == write_new_rule(all, source, mode, sink, justification, c, report)
          IN  /\ all' = IF w.exc = "none" THEN w.val ELSE all
              /\ last' = Call("write_new_rule", source, mode, sink, justification,
                              c, report, [exc |-> w.exc, val |-> PyNone], <<>>)
    /\ nwrites' = nwrites + 1
    /\ UNCHANGED <<err, df, rep, orient, z, iso>>

CallExportJustifications ==
    /\ err = "none"
    /\ LET e == export_justifications_to_csv(all)
       IN  last' = Call("export_justifications_to_csv", <<>>, "", "", "", "",
                        NoReport, [exc |-> e.exc, val |-> PyNone], e.val)
    /\ UNCHANGED <<all, err, nwrites, df, rep, orient, z, iso>>

\* rule books that keep the data model's shape, reports of companies
Init == Load(Docs)

Next ==
    \/ CallGetSinkFromStrict(CallReports)
    \/ CallGetSinkFromRegex(CallReports)
    \/ CallWriteNewRule(CallReports)
    \/ CallExportJustifications

Spec == Init /\ [][Next]_vars

\* any document; group names and fiscal years that are the text "default"
InitAny == Load(AnyDocs)

NextAny ==
    \/ CallGetSinkFromStrict(AnyReports)
    \/ CallGetSinkFromRegex(AnyReports)
    \/ CallWriteNewRule(AnyReports)
    \/ CallExportJustifications

SpecAny == InitAny /\ [][NextAny]_vars

-----------------------------------------------------------------------------
(* What the data model says a report's scopes are *)

AllKeys == {kAB, kABC, kB, rA, rAB}

\* the scope stored under tree[company][sub], empty when there is none
ScopeAt(a, c, company, sub) ==
    LET tree == RuleBook(a, c)
    IN  IF HasKey(tree, company) /\ HasKey(Value(tree, company), sub)
        THEN Value(Value(tree, company), sub)
        ELSE EmptyDict

GlobalScope(a, c) == Value(RuleBook(a, c), DEFAULT)
CompanyScope(a, c, report) == ScopeAt(a, c, report.group_name, DEFAULT)
YearScope(a, c, report) == ScopeAt(a, c, report.group_name, report.end_of_year)

SinkOf(v) == IF IsDict(v) THEN Value(v, SINK) ELSE v

\* year over company default over global default, key by key
ExpectedSink(a, c, report, key) ==
    IF HasKey(YearScope(a, c, report), key)
    THEN SinkOf(Value(YearScope(a, c, report), key))
    ELSE IF HasKey(CompanyScope(a, c, report), key)
         THEN SinkOf(Value(CompanyScope(a, c, report), key))
         ELSE IF HasKey(GlobalScope(a, c), key)
              THEN SinkOf(Value(GlobalScope(a, c), key))
              ELSE PyNone

KeysOf(d) == [i \in 1..Len(d.v) |-> d.v[i].k]
InSeq(x, seq) == \E i \in 1..Len(seq) : seq[i] = x

\* the keys in the order of their first occurrence in global, company, year
FirstOccurrenceOrder(a, c, report) ==
    LET g == KeysOf(GlobalScope(a, c))
        m == SelectSeq(KeysOf(CompanyScope(a, c, report)), LAMBDA k : ~InSeq(k, g))
        y == SelectSeq(KeysOf(YearScope(a, c, report)),
                       LAMBDA k : ~InSeq(k, g) /\ ~InSeq(k, m))
    IN  g \o m \o y

MatchingRules(a, c, report, source) ==
    SelectSeq(FirstOccurrenceOrder(a, c, report),
              LAMBDA k : MarkerAt(k) # 0 /\ re_match(Group1(k), source))

ExpectedRegexSink(a, c, report, source) ==
    LET hits == MatchingRules(a, c, report, source)
    IN  IF hits = <<>> THEN PyNone ELSE ExpectedSink(a, c, report, hits[1])

-----------------------------------------------------------------------------
(* C1 *)

\* C1: for every axis, report and source key, resolve maps the key to the sink
\* of the company-year scope when the key is there, else of the company-default
\* scope, else of the global-default scope; the merge is per key.
C1_OverridePrecedence ==
    err = "none" =>
        \A c \in Axes, report \in Reports, key \in AllKeys :
            LET s == get_rules(all, c, "s", report)
                r == get_rules(all, c, "r", report)
                want == ExpectedSink(all, c, report, key)
            IN  /\ s.exc = "none"
                /\ r.exc = "none"
                /\ IF MarkerAt(key) = 0
                   THEN DictGet(s.val, key) = want
                   ELSE DictGet(r.val, Group1(key)) = want

\* a key held by all three scopes of the report was looked up: the year wins
C1_Witness ==
    /\ last.op = "get_sink_from_strict"
    /\ HasKey(GlobalScope(all, last.col_or_jur), last.source)
    /\ HasKey(CompanyScope(all, last.col_or_jur, last.report), last.source)
    /\ HasKey(YearScope(all, last.col_or_jur, last.report), last.source)
    /\ last.res = Ok(PyStr("y2"))

-----------------------------------------------------------------------------
(* C2 *)

\* C2: get_sink_from_regex returns the sink of the first regex rule, in the
\* order of first occurrence of the keys across global default, company
\* default and company year, whose pattern matches the source at its start,
\* and no match when none does.
C2_RegexFirstMatch ==
    err = "none" =>
        \A c \in Axes, report \in Reports, source \in Sources :
            get_sink_from_regex(all, report, source, c)
                = Ok(ExpectedRegexSink(all, c, report, source))

\* two rules match the source and the later, more specific one lost
C2_Witness ==
    /\ last.op = "get_sink_from_regex"
    /\ LET hits == MatchingRules(all, last.col_or_jur, last.report, last.source)
       IN  /\ Len(hits) >= 2
           /\ Len(hits[2]) > Len(hits[1])
           /\ last.res = Ok(ExpectedSink(all, last.col_or_jur, last.report, hits[1]))
           /\ last.res # Ok(ExpectedSink(all, last.col_or_jur, last.report, hits[2]))

-----------------------------------------------------------------------------
(* C3 *)

\* C3: immediately after write_new_rule(source, CompanyYear, sink, ...) with a
\* source that carries no regex marker, get_sink_from_strict of the same
\* report, source and axis returns that sink, whether or not the company scope
\* and the year scope existed before.
C3_RoundTrip ==
    (last.op = "write_new_rule" /\ last.mode = "." /\ MarkerAt(last.source) = 0) =>
        /\ last.res.exc = "none"
        /\ get_sink_from_strict(all, last.report, last.source, last.col_or_jur)
               = Ok(PyStr(last.sink))

\* the write created the company scope and the year scope
C3_Witness ==
    /\ last.op = "write_new_rule" /\ last.mode = "." /\ MarkerAt(last.source) = 0
    /\ Subscript(RuleBook(all, last.col_or_jur), last.report.group_name)
           = Ok(Dict1(last.report.end_of_year,
                      Dict1(last.source, RuleEntry(last.sink, last.justification))))
    /\ get_sink_from_strict(all, last.report, last.source, last.col_or_jur)
           = Ok(PyStr("z"))

-----------------------------------------------------------------------------
(* C4 *)

TopKeys(d) == {d.v[i].k : i \in 1..Len(d.v)}

LeafRecord(path, entry) ==
    [path |-> path, sink |-> Value(entry, SINK),
     justification |-> Value(entry, JUSTIFICATION)]

\* the RuleEntry leaves of the rule book, in every scope of both axes
LeafRules(a) ==
    UNION {
        {LeafRecord(<<AxisKey(c), DEFAULT, k>>, Value(GlobalScope(a, c), k)) :
            k \in {k \in TopKeys(GlobalScope(a, c)) : IsDict(Value(GlobalScope(a, c), k))}}
        \cup
        UNION { UNION {
            {LeafRecord(<<AxisKey(c), co, sub, k>>, Value(ScopeAt(a, c, co, sub), k)) :
                k \in {k \in TopKeys(ScopeAt(a, c, co, sub)) :
                          IsDict(Value(ScopeAt(a, c, co, sub), k))}}
            : sub \in TopKeys(Value(RuleBook(a, c), co))}
          : co \in TopKeys(RuleBook(a, c)) \ {DEFAULT}}
      : c \in Axes}

\* C4: the export emits exactly one record for every leaf RuleEntry of the
\* rule book, on both axes and in every scope (global default, company
\* default, company year), carrying the path of scope keys, the sink and the
\* justification.
C4_ExportEveryLeaf ==
    last.op = "export_justifications_to_csv" =>
        /\ last.res.exc = "none"
        /\ {last.records[i] : i \in 1..Len(last.records)} = LeafRules(all)
        /\ Len(last.records) = Cardinality(LeafRules(all))

-----------------------------------------------------------------------------
(* C6 *)

\* the rule book with the report's missing scopes added, empty
WithEmptyScopes(a, c, report) ==
    LET ax == AxisKey(c)
        co == report.group_name
        a1 == IF HasKey(RuleBook(a, c), co) THEN a
              ELSE SetPath(a, <<ax, co>>, EmptyDict)
        a2 == IF HasKey(Value(RuleBook(a1, c), co), DEFAULT) THEN a1
              ELSE SetPath(a1, <<ax, co, DEFAULT>>, EmptyDict)
    IN  IF HasKey(Value(RuleBook(a2, c), co), report.end_of_year) THEN a2
        ELSE SetPath(a2, <<ax, co, report.end_of_year>>, EmptyDict)

\* C6: on a rule book whose trees hold a global-default scope, for any report
\* (its company without a scope, or with a scope and no default or no year
\* sub-scope), both lookups return without raising, return no match when no
\* rule applies, and resolve as if the missing scopes were there and empty.
C6_MissIsAValue ==
    err = "none" =>
        \A c \in Axes, report \in Reports, source \in Sources :
            LET s == get_sink_from_strict(all, report, source, c)
                r == get_sink_from_regex(all, report, source, c)
                full == WithEmptyScopes(all, c, report)
            IN  /\ s.exc = "none"
                /\ r.exc = "none"
                /\ ExpectedSink(all, c, report, source) = PyNone => s.val = PyNone
                /\ MatchingRules(all, c, report, source) = <<>> => r.val = PyNone
                /\ s = get_sink_from_strict(full, report, source, c)
                /\ r = get_sink_from_regex(full, report, source, c)

\* a lookup for a company without a scope, resolved by the global default,
\* on a rule book where another source misses
C6_Witness ==
    /\ last.op = "get_sink_from_regex"
    /\ ~HasKey(RuleBook(all, last.col_or_jur), last.report.group_name)
    /\ last.res.exc = "none"
    /\ last.res.val # PyNone
    /\ \E source \in Sources :
          get_sink_from_regex(all, last.report, source, last.col_or_jur) = Ok(PyNone)

-----------------------------------------------------------------------------
(* C8 *)

HasDefault(a, c) == HasKey(RuleBook(a, c), DEFAULT)

\* C8 as stated: after a successful load and any writes, both axis trees
\* hold a "default" scope.
C8_DefaultAlways ==
    err = "none" => \A c \in Axes : HasDefault(all, c)

\* C8, amended: the loader yields both axis trees; a tree that holds a
\* "default" scope keeps it through every write_new_rule, with every key the
\* scope held.
C8_DefaultKept ==
    [][err = "none" =>
        /\ HasKey(all', COLUMN_RULES) /\ HasKey(all', JURISDICTION_RULES)
        /\ \A c \in Axes :
              HasDefault(all, c) =>
                  /\ HasDefault(all', c)
                  /\ TopKeys(GlobalScope(all, c)) \subseteq TopKeys(GlobalScope(all', c))
      ]_vars

\* a global write of a new key into a default scope that held other keys
C8_Witness ==
    /\ last.op = "write_new_rule" /\ last.mode = "!" /\ last.res.exc = "none"
    /\ HasDefault(all, last.col_or_jur)
    /\ Cardinality(TopKeys(GlobalScope(all, last.col_or_jur))) >= 3

-----------------------------------------------------------------------------
(* C9 *)

\* the scope a write of this mode goes to
TargetScope(a, call) ==
    IF call.mode = "!" THEN GlobalScope(a, call.col_or_jur)
    ELSE IF call.mode = "#" THEN CompanyScope(a, call.col_or_jur, call.report)
    ELSE YearScope(a, call.col_or_jur, call.report)

\* both lookups of the call's report, source and axis return no match
NothingResolves(a, call) ==
    /\ get_sink_from_strict(a, call.report, call.source, call.col_or_jur) = Ok(PyNone)
    /\ get_sink_from_regex(a, call.report, call.source, call.col_or_jur) = Ok(PyNone)

WriteStep == last'.op = "write_new_rule" /\ nwrites' = nwrites + 1

\* C9: a write made after both lookups returned no match replaces no entry:
\* the targeted scope holds no entry under the source key before the write.
C9_NoOverwrite ==
    [][(WriteStep /\ NothingResolves(all, last')) =>
           ~HasKey(TargetScope(all, last'), last'.source)]_vars

-----------------------------------------------------------------------------
(* C10 *)

GroupNames == {Acme, Bolt, DEFAULT}
FiscalYears == {Y2020, Y2021, DEFAULT}

\* the sub-scopes of a company in a tree, none when it has no scope
SubScopes(tree, company) ==
    IF HasKey(tree, company) THEN Value(tree, company) ELSE EmptyDict

\* what a company-scoped write of `call` may change between a and b: the
\* entry under the source key in the company's targeted sub-scope
OnlyTheEntryChanged(a, b, call) ==
    LET c == call.col_or_jur
        other == IF c = "c" THEN "j" ELSE "c"
        company == call.report.group_name
        sub == IF call.mode = "#" THEN DEFAULT ELSE call.report.end_of_year
        ta == RuleBook(a, c)
        tb == RuleBook(b, c)
    IN  /\ RuleBook(a, other) = RuleBook(b, other)
        /\ Subscript(ta, DEFAULT) = Subscript(tb, DEFAULT)
        /\ \A k \in (TopKeys(ta) \cup TopKeys(tb)) \ {company} :
              Subscript(ta, k) = Subscript(tb, k)
        /\ \A k \in (TopKeys(SubScopes(ta, company))
                        \cup TopKeys(SubScopes(tb, company))) \ {sub} :
              Subscript(SubScopes(ta, company), k) = Subscript(SubScopes(tb, company), k)
        /\ \A k \in (TopKeys(ScopeAt(a, c, company, sub))
                        \cup TopKeys(ScopeAt(b, c, company, sub))) \ {call.source} :
              Subscript(ScopeAt(a, c, company, sub), k)
                  = Subscript(ScopeAt(b, c, company, sub), k)

\* the lookups of every report of another company agree on a and b
OtherCompaniesResolveAlike(a, b, call) ==
    \A g \in GroupNames \ {call.report.group_name}, y \in FiscalYears,
       source \in Sources, c \in Axes :
        /\ get_sink_from_strict(a, Report(g, y), source, c)
               = get_sink_from_strict(b, Report(g, y), source, c)
        /\ get_sink_from_regex(a, Report(g, y), source, c)
               = get_sink_from_regex(b, Report(g, y), source, c)

\* C10: a CompanyDefault or CompanyYear write for a report of company A, for
\* any group_name and fiscal year, changes only the entry under the source key
\* in A's targeted sub-scope of the chosen axis, and the results resolved for
\* reports of any other company are the same before and after.
C10_ScopeIsolation ==
    [][(WriteStep /\ last'.mode \in {"#", "."} /\ last'.res.exc = "none") =>
           /\ OnlyTheEntryChanged(all, all', last')
           /\ OtherCompaniesResolveAlike(all, all', last')]_vars

-----------------------------------------------------------------------------
(* auto_jurisdiction_to_iso3166 as a state machine *)

MaxLen == 3

JurChars == {"i", "t", "a", "I", "m", "n", " ", "1", DOTLESS_I}
JurTexts == UNION {[1..n -> JurChars] : n \in 0..MaxLen}

RulesIdle ==
    /\ all = PyNone
    /\ err = "no rule book"
    /\ nwrites = 0
    /\ last = NoCall

InitJur ==
    /\ z \in JurTexts
    /\ iso = None
    /\ RulesIdle
    /\ df = <<>>
    /\ rep = [min_nb_jurs_per_table |-> 0, min_nb_cols |-> 0]
    /\ orient = "none"

CallAutoJurisdiction ==
    /\ iso = None
    /\ iso' = auto_jurisdiction_to_iso3166(z)
    /\ UNCHANGED <<all, err, nwrites, last, df, rep, orient, z>>

NextJur == CallAutoJurisdiction

SpecJur == InitJur /\ [][NextJur]_vars

-----------------------------------------------------------------------------
(* is_transposed as a state machine *)

MaxRows == 2
Widths == {0, 1, 2}
Thresholds == {1, 2}

CellTexts == {<<"I","T","A">>, <<"t","a","x">>,
              <<"u","n","r","e","l","a","t","e","d">>, <<"x">>}
\* the labels pandas gives columns without a header, and a header of terms
Headers == {<<<<"0">>, <<"1">>>>, <<<<"i","n","c","o","m","e">>, <<"p","r","o","f","i","t">>>>}

Frames ==
    UNION {UNION {
        {[columns |-> SubSeq(h, 1, w), rows |-> rows] :
            h \in Headers, rows \in [1..n -> [1..w -> CellTexts]]}
        : n \in 0..MaxRows} : w \in Widths}

InitOrient ==
    /\ df \in Frames
    /\ rep \in [min_nb_jurs_per_table : Thresholds, min_nb_cols : Thresholds]
    /\ orient = "none"
    /\ RulesIdle
    /\ z = <<>>
    /\ iso = None

CallIsTransposed ==
    /\ orient = "none"
    /\ orient' = is_transposed(df, rep)
    /\ UNCHANGED <<all, err, nwrites, last, df, rep, z, iso>>

NextOrient == CallIsTransposed

SpecOrient == InitOrient /\ [][NextOrient]_vars

-----------------------------------------------------------------------------
(* C5 *)

ColumnDecides ==
    \E j \in 1..Len(df.columns) :
        count_countries(ColumnValues(df, j)) >= rep.min_nb_jurs_per_table

RowHasTerms(i) ==
    count_CbCR_terms(to_string(df.columns, df.rows[i])) >= rep.min_nb_cols
RowHasJurisdictions(i) ==
    count_countries(df.rows[i]) >= rep.min_nb_jurs_per_table

DecidingRows == {i \in 1..Len(df.rows) : RowHasTerms(i) \/ RowHasJurisdictions(i)}
FirstDecidingRow == CHOOSE i \in DecidingRows : \A j \in DecidingRows : i <= j

\* C5: a column with min_nb_jurs_per_table jurisdiction-like cells makes the
\* table not transposed whatever the rows; otherwise the first row that meets
\* a threshold decides, not transposed when it has min_nb_cols terms (this
\* test first), transposed when it has min_nb_jurs_per_table jurisdiction-like
\* cells; with no such column and row the error is raised.
C5_Orientation ==
    orient # "none" =>
        orient = IF ColumnDecides THEN "False"
                 ELSE IF DecidingRows = {} THEN "ValueError"
                 ELSE IF RowHasTerms(FirstDecidingRow) THEN "False"
                 ELSE "True"

\* no column decides and the deciding row meets both thresholds
C5_Witness ==
    /\ orient = "False"
    /\ ~ColumnDecides
    /\ DecidingRows # {}
    /\ RowHasTerms(FirstDecidingRow)
    /\ RowHasJurisdictions(FirstDecidingRow)

-----------------------------------------------------------------------------
(* C7 *)

FuzzyHit(x) == my_search_fuzzy(Countries, x).exc = "none"
TopCandidate(x) == my_search_fuzzy(Countries, x).val[1][1]

\* C7 as stated: never the empty string; the cleaned text uppercased when it
\* is a valid code, else the code of the name index, else for a non-empty
\* cleaned text the code of the top-ranked fuzzy candidate, else the cleaned
\* text when it is not empty, and "<empty>" only when it is empty.
C7_PriorityOrder ==
    iso # None =>
        LET x == neatify(z)
        IN  /\ iso # <<>>
            /\ iso = EMPTY <=> x = <<>>
            /\ iso = IF str_upper(x) \in ISO3166_ALPHA3 THEN str_upper(x)
                     ELSE IF MappingGet(x) # <<>> THEN MappingGet(x)
                     ELSE IF x # <<>> /\ FuzzyHit(x) THEN TopCandidate(x)
                     ELSE IF x # <<>> THEN x
                     ELSE EMPTY

\* C7, amended: the fuzzy candidate is used only when, besides, the raw text
\* uppercased is not itself a valid code.
C7_PriorityOrderGuarded ==
    iso # None =>
        LET x == neatify(z)
        IN  /\ iso # <<>>
            /\ iso = EMPTY <=> x = <<>>
            /\ iso = IF str_upper(x) \in ISO3166_ALPHA3 THEN str_upper(x)
                     ELSE IF MappingGet(x) # <<>> THEN MappingGet(x)
                     ELSE IF x # <<>> /\ str_upper(z) \notin ISO3166_ALPHA3 /\ FuzzyHit(x)
                          THEN TopCandidate(x)
                     ELSE IF x # <<>> THEN x
                     ELSE EMPTY

\* a text that is no code and no indexed name, with several fuzzy candidates
C7_Witness ==
    /\ iso # None
    /\ neatify(z) # z
    /\ str_upper(neatify(z)) \notin ISO3166_ALPHA3
    /\ MappingGet(neatify(z)) = <<>>
    /\ FuzzyHit(neatify(z))
    /\ Len(my_search_fuzzy(Countries, neatify(z)).val) >= 2
    /\ iso = TopCandidate(neatify(z))

====
